---------------------------- MODULE Spec2Model ----------------------------
(***************************************************************************)
(* Local-draft autosave and draft recovery of the blog editor.             *)
(*                                                                         *)
(* The model covers the useLocalDraft hook (lib/hooks/useLocalDraft.ts),   *)
(* the two editing pages that use it (NewPostPage, EditPostPage) with      *)
(* their React effects, the remote post query and the create/update        *)
(* mutation.  One behaviour follows one editing session (one mount of an   *)
(* editing page) on one context, from what earlier sessions left in        *)
(* localStorage.                                                           *)
(*                                                                         *)
(* React semantics used: state updates of one event handler or timer       *)
(* callback are batched, the component re-renders, and every effect whose  *)
(* dependency array changed runs before the next event; an action of the   *)
(* model is the handler together with the effects it triggers.             *)
(***************************************************************************)
EXTENDS Integers, Sequences, FiniteSets, TLC

VARIABLES
    storage,            \* localStorage: storage key -> stored string or Absent
    clock,              \* the wall clock read by new Date() at a write
    mounted,            \* an editing page is mounted
    page,               \* "new" (NewPostPage) or "edit" (EditPostPage)
    status,             \* useLocalDraft: status
    lastSaved,          \* useLocalDraft: lastSaved (NoDate, a Date, InvalidDate)
    hasUnsavedChanges,  \* useLocalDraft: hasUnsavedChanges
    hasDraft,           \* useLocalDraft: hasDraft
    isHydrated,         \* useLocalDraft: isHydrated
    lastSavedHashRef,   \* useLocalDraft: lastSavedHashRef.current
    checkTimer,         \* changeCheckInterval: "armed" or "none"
    saveTimer,          \* autoSaveInterval: "armed" or "none"
    form,               \* values held by FrontmatterForm, NoForm if unmounted
    content,            \* page state: content
    timerAge,           \* time since the intervals (re)started, or Untimed
    routeSlug,          \* EditPostPage: the slug parameter of the route
    textarea,           \* MarkdownEditor: selectionStart/End of the textarea
    postsStore,         \* demo API: the in-memory list of posts
    response,           \* demo API: the answer to the last request
    hDeleted,           \* history: slugs deleted (204) and not created since
    showDraftDialog,    \* page state: showDraftDialog
    draftRestored,      \* EditPostPage state: draftRestored
    post,               \* query cache data of ["post", slug], NoPost if none
    fetching,           \* a fetch of the post is in flight
    queryError,         \* the post query is in the error state
    remote,             \* the post as the remote store holds it
    mutation,           \* create/update mutation: NoMutation or its variables
    lastOp,             \* history: the operation that made the last step
    ret,                \* history: what checkForChanges returned in that step
    opened,             \* history: the dialog has opened during this mount
    hAck,               \* history: live state at baseline creation / last write
    hPass,              \* history: the persist passes since live last changed
    hCommitClean,       \* history: the live state is what was last committed
    hWritten,           \* history: the live state the stored snapshot was written from
    hStale              \* history: the last persist tick found changes the flag did not show

hookVars == <<status, lastSaved, hasUnsavedChanges, hasDraft, isHydrated,
              lastSavedHashRef, checkTimer, saveTimer>>
pageVars == <<form, content, showDraftDialog, draftRestored>>
editorVars == <<textarea>>
demoVars == <<postsStore, response, hDeleted>>
routeVars == <<routeSlug>>
timeVars == <<timerAge>>
queryVars == <<post, fetching, queryError, remote, mutation>>
histVars == <<lastOp, ret, opened, hAck, hPass, hCommitClean, hWritten, hStale>>
vars == <<storage, clock, mounted, page, routeVars, timeVars, hookVars, pageVars, editorVars, demoVars,
          queryVars, histVars>>

-----------------------------------------------------------------------------
(* Bounds of the model *)

\* Storage writes (each reads the clock) in one behaviour.
MaxWrites == 2
\* Length of the tag lists the fingerprint specification ranges over.
MaxTags == 2
\* Length of the texts the toolbar specification starts from.
MaxLen == 3
\* Number of posts the demo store holds at most.
MaxPosts == 3

-----------------------------------------------------------------------------
(* Values *)

Absent == [kind |-> "absent"]       \* localStorage.getItem gives null
NoForm == [kind |-> "noForm"]       \* formRef.current is null
NoPost == [kind |-> "noPost"]       \* useQuery data is undefined
NoMutation == [kind |-> "noMutation"]
NoData == [kind |-> "noData"]       \* getData() returned null
NoDate == [kind |-> "null"]         \* lastSaved is null
InvalidDate == [invalid |-> TRUE]   \* new Date(undefined)
NoHash == <<>>                      \* lastSavedHashRef.current is null
NoState == [kind |-> "none"]
\* The selection of a textarea the model does not follow: a cursor at 0.
CursorAtStart == [selectionStart |-> 0, selectionEnd |-> 0]

\* Time is counted in periods of the change-check interval (1000 ms); the
\* auto-save interval defaults to 5000 ms.
CheckPeriod == 1
SavePeriod == 5

\* The value of timerAge in the specifications that abstract from time: a
\* timer that is armed may fire at any moment.
Untimed == [kind |-> "untimed"]

\* Only the change-check interval starts again.
RestartedCheckOnly(a) == IF a = Untimed THEN a ELSE [a EXCEPT !.check = 0, !.idle = 0]

\* Both interval effects have run again: clearInterval, setInterval.

Restarted(a) == IF a = Untimed THEN a ELSE [check |-> 0, save |-> 0, idle |-> 0]

\* A timer whose interval has this age fires.
Due(a, timer, period) == IF a = Untimed THEN TRUE ELSE a[timer] = period

\* setInterval: after the callback the next period begins.
AfterFire(a, timer) == IF a = Untimed THEN a ELSE [a EXCEPT ![timer] = 0]

\* The accessor getData is a useCallback on [content]: a render with another
\* content gives the hook another checkForChanges and saveDraft, and both
\* interval effects run again; a change of the form alone does not.
TimersFollowContent ==
    timerAge' = IF content' # content THEN Restarted(timerAge) ELSE timerAge

\* The demo store: slugs, the posts it starts with, the answers.
DemoSlugs == {"s1", "s2"}

\* mockPosts: the posts the store starts with, their slugs distinct
mockPosts ==
    << [slug |-> "s1", title |-> "T", draft |-> FALSE],
       [slug |-> "s2", title |-> "T", draft |-> TRUE] >>

undefined == [kind |-> "undefined"]
NoResponse == [status |-> 0, body |-> undefined]

\* The demo store before any request.
DemoAtStart ==
    /\ postsStore = mockPosts
    /\ response = NoResponse
    /\ hDeleted = {}

Tags == {"a", "b", "c"}
\* UTF-16 code units, the order Array.prototype.sort uses by default.
CodeUnit == [a |-> 97, b |-> 98, c |-> 99]

RECURSIVE SeqsUpTo(_)
SeqsUpTo(n) ==
    IF n = 0 THEN {<<>>}
    ELSE LET shorter == SeqsUpTo(n - 1)
         IN  shorter \cup {Append(s, t) : s \in {x \in shorter : Len(x) = n - 1}, t \in Tags}

\* Tag lists as TagInput builds them: addTag refuses a tag the list holds.
TagInputLists(n) ==
    {s \in SeqsUpTo(n) : \A i, j \in 1..Len(s) : s[i] = s[j] => i = j}

\* Inputs the user picks from in the session specification: text typed into
\* the editor, the required title and description, and the tags a page
\* starts with (to which the user returns after restoring other tags).
Contents == {"", "x"}
Titles(pg) == {"T"}
Descriptions(pg) == {"D"}
TagLists(pg) == IF pg = "new" THEN {<<>>} ELSE {<<"a", "b">>}

EditSlug == "s1"
\* The post the remote store holds for EditSlug when the behaviour starts.
InitialPost ==
    [title |-> "T", slug |-> EditSlug, description |-> "D", date |-> "d1",
     draft |-> FALSE, tags |-> <<"a", "b">>, content |-> "x"]

-----------------------------------------------------------------------------
(* dataToHash: JSON.stringify of the fields with the tags sorted *)

\* a sorts before b under the default comparison of Array.prototype.sort
SortsBefore(a, b) == CodeUnit[a] < CodeUnit[b]

RECURSIVE InsertSorted(_, _)
InsertSorted(t, sorted) ==
    IF sorted = <<>> THEN <<t>>
    ELSE IF SortsBefore(Head(sorted), t) \/ Head(sorted) = t
         THEN <<Head(sorted)>> \o InsertSorted(t, Tail(sorted))
         ELSE <<t>> \o sorted

\* [...tags].sort()
RECURSIVE SortTags(_)
SortTags(tags) ==
    IF tags = <<>> THEN <<>>
    ELSE InsertSorted(Head(tags), SortTags(Tail(tags)))

\* dataToHash with the tags as they are, unsorted.
dataToHashUnsorted(data) ==
    << "title", data.title, "slug", data.slug, "description", data.description,
       "date", data.date, "draft", data.draft, "tags", data.tags,
       "content", data.content >>

\* The JSON text, as the sequence of its keys and values in key order.
dataToHash(data) ==
    << "title", data.title, "slug", data.slug, "description", data.description,
       "date", data.date, "draft", data.draft, "tags", SortTags(data.tags),
       "content", data.content >>

-----------------------------------------------------------------------------
(* localStorage strings and JSON *)

\* A stored string is described by the JSON value it is the text of.
JsNull == [json |-> "null"]
JEmptyObject == [json |-> "emptyObject"]
SyntaxError == [json |-> "syntaxError"]

JSONstringify(value) == [str |-> "json", value |-> value]
NotJsonString == [str |-> "json", value |-> SyntaxError]   \* e.g. "{oops"

\* Stored strings that are not the serialisation of a snapshot: text that
\* is no JSON, "null", and "{}" (a stored number behaves as "{}" does).
CorruptStrings ==
    {NotJsonString, JSONstringify(JsNull), JSONstringify(JEmptyObject)}

\* JSON.parse: the value, or SyntaxError when it throws
JSONparse(string) == string.value

\* !saved
IsFalsyString(saved) == saved = Absent

IsSnapshot(value) == "savedAt" \in DOMAIN value

\* new Date(draft.savedAt)
NewDateOfSavedAt(value) ==
    IF IsSnapshot(value) THEN [time |-> value.savedAt] ELSE InvalidDate

\* The key the page passes to useLocalDraft, ignoring the slug.
DraftKeyIgnoresSlug(pg, slug) == IF pg = "new" THEN "new-post" ELSE "edit-"

\* The key the page passes to useLocalDraft: "new-post", `edit-${slug}`
DraftKey(pg, slug) == IF pg = "new" THEN "new-post" ELSE "edit-" \o slug

\* storageKey of the hook for that key
storageKeyOf(key) == "inkwell-draft-" \o key

storageKey(pg) == storageKeyOf(DraftKey(pg, routeSlug))

Keys == {storageKeyOf(DraftKey("new", EditSlug)), storageKeyOf(DraftKey("edit", EditSlug))}

\* Editing contexts: the new post, and the posts of these slugs.
Slugs == {EditSlug, "new-post"}
Contexts == {[page |-> "new", slug |-> ""]} \cup {[page |-> "edit", slug |-> sl] : sl \in Slugs}
ContextKey(c) == storageKeyOf(DraftKey(c.page, c.slug))
AllKeys == {ContextKey(c) : c \in Contexts}

-----------------------------------------------------------------------------
(* The live state: getData of the pages *)

\* date.toISOString()
toISOString(date) == date.time
\* new Date(isoString), parseISO(isoString)
NewDate(iso) == [time |-> iso]

getDataOf(f, c) ==
    IF f = NoForm THEN NoData
    ELSE [title |-> f.title, slug |-> f.slug, description |-> f.description,
          date |-> toISOString(f.date), draft |-> f.draft, tags |-> f.tags,
          content |-> c]

getData == getDataOf(form, content)

-----------------------------------------------------------------------------
(* useLocalDraft: the functions of the hook, on the hook's state h *)

HookState ==
    [stored |-> storage[storageKey(page)], ref |-> lastSavedHashRef,
     status |-> status, lastSaved |-> lastSaved,
     hasUnsavedChanges |-> hasUnsavedChanges, hasDraft |-> hasDraft]

\* The hydration effect: what it sets hasDraft and lastSaved to.
Hydrate(saved) ==
    IF IsFalsyString(saved) THEN [hasDraft |-> FALSE, lastSaved |-> NoDate]
    ELSE LET draft == JSONparse(saved)
         IN  IF draft = SyntaxError THEN [hasDraft |-> FALSE, lastSaved |-> NoDate]
             \* setHasDraft(true) has run when draft.savedAt throws on null
             ELSE IF draft = JsNull THEN [hasDraft |-> TRUE, lastSaved |-> NoDate]
             ELSE [hasDraft |-> TRUE, lastSaved |-> NewDateOfSavedAt(draft)]

\* checkForChanges without the early return of the first check.
checkForChangesNoBaseline(h, data) ==
    IF data = NoData THEN [h |-> h, ret |-> FALSE]
    ELSE LET hasChanges == h.ref # dataToHash(data)
         IN  [h |-> [h EXCEPT !.hasUnsavedChanges = hasChanges],
              ret |-> hasChanges]

\* checkForChanges that reports a missing live state as a change.
checkForChangesFlagsNoData(h, data) ==
    IF data = NoData THEN [h |-> [h EXCEPT !.hasUnsavedChanges = TRUE], ret |-> TRUE]
    ELSE IF h.ref = NoHash
         THEN [h |-> [h EXCEPT !.ref = dataToHash(data)], ret |-> FALSE]
         ELSE [h |-> [h EXCEPT !.hasUnsavedChanges = (h.ref # dataToHash(data))],
               ret |-> (h.ref # dataToHash(data))]

\* checkForChanges that takes every state it compares as the new baseline.
checkForChangesRebases(h, data) ==
    IF data = NoData THEN [h |-> h, ret |-> FALSE]
    ELSE [h |-> [h EXCEPT !.ref = dataToHash(data),
                          !.hasUnsavedChanges = (h.ref # NoHash /\ h.ref # dataToHash(data))],
          ret |-> (h.ref # NoHash /\ h.ref # dataToHash(data))]

checkForChanges(h, data) ==
    IF data = NoData THEN [h |-> h, ret |-> FALSE]
    ELSE IF h.ref = NoHash
         THEN [h |-> [h EXCEPT !.ref = dataToHash(data)], ret |-> FALSE]
         ELSE LET hasChanges == h.ref # dataToHash(data)
              IN  [h |-> [h EXCEPT !.hasUnsavedChanges = hasChanges],
                   ret |-> hasChanges]

\* saveDraft that leaves lastSavedHashRef as it was.
saveDraftKeepsBaseline(h, data, ok, now) ==
    IF data = NoData THEN [h |-> h, wrote |-> FALSE, threw |-> FALSE]
    ELSE IF h.ref = dataToHash(data) THEN [h |-> h, wrote |-> FALSE, threw |-> FALSE]
    ELSE IF ~ok
         THEN [h |-> [h EXCEPT !.status = "saving"], wrote |-> FALSE, threw |-> TRUE]
         ELSE [h |-> [h EXCEPT
                        !.stored = JSONstringify(
                            [title |-> data.title, slug |-> data.slug,
                             description |-> data.description, date |-> data.date,
                             draft |-> data.draft, tags |-> data.tags,
                             content |-> data.content, savedAt |-> now]),
                        !.lastSaved = [time |-> now],
                        !.status = "saved",
                        !.hasUnsavedChanges = FALSE,
                        !.hasDraft = TRUE],
               wrote |-> TRUE, threw |-> FALSE]

\* saveDraft that moves the baseline before the write is known to succeed.
saveDraftAdvancesFirst(h, data, ok, now) ==
    IF data = NoData THEN [h |-> h, wrote |-> FALSE, threw |-> FALSE]
    ELSE IF h.ref = dataToHash(data) THEN [h |-> h, wrote |-> FALSE, threw |-> FALSE]
    ELSE IF ~ok
         THEN [h |-> [h EXCEPT !.status = "saving", !.ref = dataToHash(data)],
               wrote |-> FALSE, threw |-> TRUE]
         ELSE [h |-> [h EXCEPT
                        !.stored = JSONstringify(
                            [title |-> data.title, slug |-> data.slug,
                             description |-> data.description, date |-> data.date,
                             draft |-> data.draft, tags |-> data.tags,
                             content |-> data.content, savedAt |-> now]),
                        !.ref = dataToHash(data),
                        !.lastSaved = [time |-> now],
                        !.status = "saved",
                        !.hasUnsavedChanges = FALSE,
                        !.hasDraft = TRUE],
               wrote |-> TRUE, threw |-> FALSE]

\* saveDraft that stores the tags as dataToHash orders them.
saveDraftSortsTags(h, data, ok, now) ==
    IF data = NoData THEN [h |-> h, wrote |-> FALSE, threw |-> FALSE]
    ELSE IF h.ref = dataToHash(data) THEN [h |-> h, wrote |-> FALSE, threw |-> FALSE]
    ELSE IF ~ok
         THEN [h |-> [h EXCEPT !.status = "saving"], wrote |-> FALSE, threw |-> TRUE]
         ELSE [h |-> [h EXCEPT
                        !.stored = JSONstringify(
                            [title |-> data.title, slug |-> data.slug,
                             description |-> data.description, date |-> data.date,
                             draft |-> data.draft, tags |-> SortTags(data.tags),
                             content |-> data.content, savedAt |-> now]),
                        !.ref = dataToHash(data),
                        !.lastSaved = [time |-> now],
                        !.status = "saved",
                        !.hasUnsavedChanges = FALSE,
                        !.hasDraft = TRUE],
               wrote |-> TRUE, threw |-> FALSE]

\* ok: localStorage.setItem returns; ~ok: it throws (quota, storage disabled)
saveDraft(h, data, ok, now) ==
    IF data = NoData THEN [h |-> h, wrote |-> FALSE, threw |-> FALSE]
    ELSE IF h.ref = dataToHash(data) THEN [h |-> h, wrote |-> FALSE, threw |-> FALSE]
    ELSE IF ~ok
         THEN [h |-> [h EXCEPT !.status = "saving"], wrote |-> FALSE, threw |-> TRUE]
         ELSE [h |-> [h EXCEPT
                        !.stored = JSONstringify(
                            [title |-> data.title, slug |-> data.slug,
                             description |-> data.description, date |-> data.date,
                             draft |-> data.draft, tags |-> data.tags,
                             content |-> data.content, savedAt |-> now]),
                        !.ref = dataToHash(data),
                        !.lastSaved = [time |-> now],
                        !.status = "saved",
                        !.hasUnsavedChanges = FALSE,
                        !.hasDraft = TRUE],
               wrote |-> TRUE, threw |-> FALSE]

\* The auto-save callback deciding from the flag of the last check instead.
autoSaveTrustsFlag(h, data, ok, now) ==
    IF h.hasUnsavedChanges
    THEN LET s == saveDraft(h, data, ok, now)
         IN  [h |-> s.h, ret |-> TRUE, wrote |-> s.wrote, threw |-> s.threw]
    ELSE [h |-> h, ret |-> FALSE, wrote |-> FALSE, threw |-> FALSE]

\* The auto-save callback that checks and leaves the saving out.
autoSaveOnlyChecks(h, data, ok, now) ==
    LET c == checkForChanges(h, data)
    IN  [h |-> c.h, ret |-> c.ret, wrote |-> FALSE, threw |-> FALSE]

\* The callback of the auto-save interval.
autoSave(h, data, ok, now) ==
    LET c == checkForChanges(h, data)
    IN  IF c.ret
        THEN LET s == saveDraft(c.h, data, ok, now)
             IN  [h |-> s.h, ret |-> c.ret, wrote |-> s.wrote, threw |-> s.threw]
        ELSE [h |-> c.h, ret |-> c.ret, wrote |-> FALSE, threw |-> FALSE]

loadDraft(saved) ==
    IF IsFalsyString(saved) THEN JsNull
    ELSE IF JSONparse(saved) = SyntaxError THEN JsNull
    ELSE JSONparse(saved)

\* clearDraft that resets the flags and leaves the key in storage.
clearDraftKeepsKey(h) ==
    [h EXCEPT !.hasDraft = FALSE, !.lastSaved = NoDate]

clearDraft(h) ==
    [h EXCEPT !.stored = Absent, !.hasDraft = FALSE, !.lastSaved = NoDate]

\* The live state of an earlier session on the context at its last write.
OldLive(pg) ==
    [title |-> "T", slug |-> IF pg = "new" THEN "t" ELSE EditSlug,
     description |-> "D", date |-> "d1", draft |-> (pg = "new"),
     tags |-> <<"b", "a">>, content |-> IF pg = "new" THEN "x" ELSE ""]

\* The hook of that session before the write.
OldHook ==
    [stored |-> Absent, ref |-> NoHash, status |-> "idle", lastSaved |-> NoDate,
     hasUnsavedChanges |-> FALSE, hasDraft |-> FALSE]

\* The snapshot that session left behind: what its saveDraft() stored.
OldSnapshot(pg) == JSONparse(saveDraft(OldHook, OldLive(pg), TRUE, 0).h.stored)

-----------------------------------------------------------------------------
(* The pages: rendering and effects *)

\* The page renders its body (editor, form, dialog): EditPostPage returns
\* early while the post is loading and when the query is in error.
BodyRendered(pg, p, err) == pg = "new" \/ (p # NoPost /\ ~err)

\* defaultValues of FrontmatterForm merged over the form's own defaults
FormDefaults(pg, p) ==
    IF pg = "new"
    THEN [title |-> "", slug |-> "", description |-> "", date |-> NewDate("d0"),
          draft |-> TRUE, tags |-> <<>>]
    ELSE [title |-> p.title, slug |-> p.slug, description |-> p.description,
          date |-> NewDate(p.date), draft |-> p.draft, tags |-> p.tags]

\* The form after a render: mounted with its defaults when the body appears,
\* unmounted when it disappears, else as the handler left it (base).
FormAfter(wasRendered, isRendered, pg, p, base) ==
    IF ~isRendered THEN NoForm
    ELSE IF ~wasRendered THEN FormDefaults(pg, p)
    ELSE base

\* "Update content when post loads": effect on [post, draftRestored]
ContentEffectUnguarded(pg, oldDeps, newPost, newRestored, base) ==
    IF pg = "edit" /\ oldDeps # <<newPost, newRestored>> /\ newPost # NoPost
    THEN newPost.content
    ELSE base

ContentEffect(pg, oldDeps, newPost, newRestored, base) ==
    IF pg = "edit" /\ oldDeps # <<newPost, newRestored>>
       /\ newPost # NoPost /\ ~newRestored
    THEN newPost.content
    ELSE base

\* The dependency array of the draft dialog effect.
DialogDeps(pg, hyd, hd, p) == IF pg = "new" THEN <<hyd, hd>> ELSE <<hyd, hd, p>>

\* The draft dialog effect: showDraftDialog after it, base without it.
DialogEffect(pg, oldDeps, hyd, hd, p, base) ==
    IF oldDeps # DialogDeps(pg, hyd, hd, p) /\ hyd /\ hd /\ (pg = "new" \/ p # NoPost)
    THEN TRUE
    ELSE base

\* format(date, "yyyy-MM-dd"); the dates of the model are whole days
FormatDay(date) == date.time

\* The slug handleTitleChange derives from the title.
Slugify(title) == IF title = "T" THEN "t" ELSE ""

\* zodResolver(formSchema): title, slug and description are required
FormIsValid(f) ==
    /\ f # NoForm
    /\ f.title # "" /\ f.slug # "" /\ f.description # ""

CurDialogDeps == DialogDeps(page, isHydrated, hasDraft, post)
CurContentDeps == <<post, draftRestored>>
CurRendered == mounted /\ BodyRendered(page, post, queryError)

-----------------------------------------------------------------------------
(* History variables *)

DialogOpens == ~showDraftDialog /\ showDraftDialog'

\* For a step that is no persist pass and no commit.
HistoryOf(op) ==
    /\ lastOp' = op
    /\ ret' = "none"
    /\ opened' = (opened \/ DialogOpens)
    /\ hAck' = hAck
    /\ hPass' = IF getData' = getData THEN hPass ELSE "changed"
    /\ hStale' = FALSE
    /\ hCommitClean' = (hCommitClean /\ getData' = getData)
    /\ hWritten' = IF storage'[storageKey(page)] = Absent THEN NoState ELSE hWritten

\* Writes the hook's state h back to the variables of the hook.
SetHook(h) ==
    /\ storage' = [storage EXCEPT ![storageKey(page)] = h.stored]
    /\ lastSavedHashRef' = h.ref
    /\ status' = h.status
    /\ lastSaved' = h.lastSaved
    /\ hasUnsavedChanges' = h.hasUnsavedChanges
    /\ hasDraft' = h.hasDraft

-----------------------------------------------------------------------------
(* Initial state: the editing context of the behaviour is chosen, its page
   is not mounted yet, the remote store holds the post *)

\* What localStorage may hold when the behaviour starts: nothing, or under
\* the key of the context a snapshot of an earlier session or a string that
\* is no snapshot.
StoredBefore(pg) == CorruptStrings \cup {JSONstringify(OldSnapshot(pg))}

InitialStorages(pg) ==
    {[k \in Keys |-> Absent]}
    \cup {[k \in Keys |-> IF k = storageKey(pg) THEN v ELSE Absent] :
             v \in StoredBefore(pg)}

Init ==
    /\ routeSlug = EditSlug
    /\ timerAge = Untimed
    /\ page \in {"new", "edit"}
    /\ storage \in InitialStorages(page)
    /\ clock = 1
    /\ mounted = FALSE
    /\ status = "idle"
    /\ lastSaved = NoDate
    /\ hasUnsavedChanges = FALSE
    /\ hasDraft = FALSE
    /\ isHydrated = FALSE
    /\ lastSavedHashRef = NoHash
    /\ checkTimer = "none"
    /\ saveTimer = "none"
    /\ form = NoForm
    /\ content = ""
    /\ textarea = CursorAtStart
    /\ DemoAtStart
    /\ showDraftDialog = FALSE
    /\ draftRestored = FALSE
    /\ post = NoPost
    /\ fetching = FALSE
    /\ queryError = FALSE
    /\ remote = InitialPost
    /\ mutation = NoMutation
    /\ lastOp = "init"
    /\ ret = "none"
    /\ opened = FALSE
    /\ hAck = NoState
    /\ hPass = "changed"
    /\ hCommitClean = FALSE
    /\ hStale = FALSE
    /\ hWritten = IF storage[storageKey(page)] = JSONstringify(OldSnapshot(page))
                  THEN OldLive(page) ELSE NoState

-----------------------------------------------------------------------------
(* Mount and unmount of an editing page *)

\* What the cleanups of the two interval effects leave of the timers.
TimersAfterCleanupLeak == <<"none", "armed">>

TimersAfterCleanup == <<"none", "none">>

\* The user opens the page of the context: first render, the
\* hydration effect, both interval effects and the page's effects.
Mount ==
    /\ ~mounted
    /\ lastOp = "init"
    /\ mounted' = TRUE
    /\ LET hy == Hydrate(storage[storageKey(page)])
       IN  /\ hasDraft' = hy.hasDraft
           /\ lastSaved' = hy.lastSaved
           /\ showDraftDialog' =
                DialogEffect(page, DialogDeps(page, FALSE, FALSE, post), TRUE,
                             hy.hasDraft, post, FALSE)
    /\ isHydrated' = TRUE
    /\ status' = "idle"
    /\ hasUnsavedChanges' = FALSE
    /\ lastSavedHashRef' = NoHash
    /\ checkTimer' = "armed"
    /\ saveTimer' = "armed"
    /\ draftRestored' = FALSE
    /\ form' = FormAfter(FALSE, BodyRendered(page, post, queryError), page, post, NoForm)
    /\ content' = ContentEffect(page, <<NoPost, FALSE>>, post, FALSE, "")
    \* useQuery fetches on mount when it has no data or is in error
    /\ fetching' = IF page = "edit" /\ (post = NoPost \/ queryError) THEN TRUE ELSE fetching
    /\ UNCHANGED <<storage, clock, page, post, queryError, remote, mutation>>
    /\ UNCHANGED <<editorVars, demoVars, routeVars>>
    /\ timerAge' = Restarted(timerAge)
    /\ lastOp' = "other"
    /\ ret' = "none"
    /\ opened' = showDraftDialog'
    /\ hAck' = NoState
    /\ hPass' = "changed"
    /\ hStale' = FALSE
    /\ hCommitClean' = FALSE
    /\ hWritten' = hWritten

\* The user navigates away (one behaviour follows one session to its end):
\* the effect cleanups run, formRef is cleared and React drops the state of
\* the page; status, lastSaved, hasUnsavedChanges, hasDraft and isHydrated
\* keep what was last rendered.
Unmount ==
    /\ mounted
    /\ mounted' = FALSE
    /\ checkTimer' = TimersAfterCleanup[1]
    /\ saveTimer' = TimersAfterCleanup[2]
    /\ form' = NoForm
    /\ content' = ""
    /\ showDraftDialog' = FALSE
    /\ draftRestored' = FALSE
    /\ lastSavedHashRef' = NoHash
    /\ UNCHANGED <<storage, clock, page, status, lastSaved, hasUnsavedChanges,
                   hasDraft, isHydrated, queryVars>>
    /\ UNCHANGED <<editorVars, demoVars, routeVars>>
    /\ TimersFollowContent
    /\ lastOp' = "other"
    /\ ret' = "none"
    /\ opened' = FALSE
    /\ hAck' = NoState
    /\ hPass' = "changed"
    /\ hStale' = FALSE
    /\ hCommitClean' = FALSE
    /\ hWritten' = hWritten

-----------------------------------------------------------------------------
(* The post query of EditPostPage *)

\* A fetch of the post succeeds: the cache takes the remote post; a mounted
\* edit page re-renders (the form mounts with the body) and its effects run.
FetchDone ==
    /\ fetching
    /\ fetching' = FALSE
    /\ queryError' = FALSE
    /\ post' = remote
    /\ IF mounted /\ page = "edit"
       THEN /\ form' = FormAfter(CurRendered, TRUE, page, post', form)
            /\ content' = ContentEffect(page, CurContentDeps, post', draftRestored, content)
            /\ showDraftDialog' =
                 DialogEffect(page, CurDialogDeps, isHydrated, hasDraft, post',
                              showDraftDialog)
       ELSE UNCHANGED <<form, content, showDraftDialog>>
    /\ UNCHANGED <<storage, clock, mounted, page, hookVars, draftRestored,
                   remote, mutation>>
    /\ UNCHANGED <<editorVars, demoVars, routeVars>>
    /\ TimersFollowContent
    /\ HistoryOf("fetchDone")

\* A fetch fails after its retries: the query is in error, the edit page
\* shows "Post not found" and the form unmounts.
FetchFail ==
    /\ fetching
    /\ fetching' = FALSE
    /\ queryError' = TRUE
    /\ form' = IF mounted /\ page = "edit" THEN NoForm ELSE form
    /\ UNCHANGED <<storage, clock, mounted, page, hookVars, content,
                   showDraftDialog, draftRestored, post, remote, mutation>>
    /\ UNCHANGED <<editorVars, demoVars, routeVars>>
    /\ TimersFollowContent
    /\ HistoryOf("fetchFail")

-----------------------------------------------------------------------------
(* The user edits; the modal dialog blocks the page while it is open *)

CanEdit == CurRendered /\ ~showDraftDialog

\* MarkdownEditor onChange (typing or a toolbar action): setContent
EditContent(c) ==
    /\ CanEdit
    /\ c # content
    /\ content' = c
    /\ UNCHANGED <<storage, clock, mounted, page, hookVars, form,
                   showDraftDialog, draftRestored, queryVars>>
    /\ UNCHANGED <<editorVars, demoVars, routeVars>>
    /\ TimersFollowContent
    /\ HistoryOf("other")

\* handleTitleChange: the new page derives the slug from the title
EditTitle(t) ==
    /\ CanEdit
    /\ t # form.title
    /\ form' = IF page = "new"
               THEN [form EXCEPT !.title = t, !.slug = Slugify(t)]
               ELSE [form EXCEPT !.title = t]
    /\ UNCHANGED <<storage, clock, mounted, page, hookVars, content,
                   showDraftDialog, draftRestored, queryVars>>
    /\ UNCHANGED <<editorVars, demoVars, routeVars>>
    /\ TimersFollowContent
    /\ HistoryOf("other")

EditDescription(d) ==
    /\ CanEdit
    /\ d # form.description
    /\ form' = [form EXCEPT !.description = d]
    /\ UNCHANGED <<storage, clock, mounted, page, hookVars, content,
                   showDraftDialog, draftRestored, queryVars>>
    /\ UNCHANGED <<editorVars, demoVars, routeVars>>
    /\ TimersFollowContent
    /\ HistoryOf("other")

\* TagInput onChange
EditTags(ts) ==
    /\ CanEdit
    /\ ts # form.tags
    /\ form' = [form EXCEPT !.tags = ts]
    /\ UNCHANGED <<storage, clock, mounted, page, hookVars, content,
                   showDraftDialog, draftRestored, queryVars>>
    /\ UNCHANGED <<editorVars, demoVars, routeVars>>
    /\ TimersFollowContent
    /\ HistoryOf("other")

\* Values the fingerprint specification gives the other fields of the form.
HashTitles == {"", "T"}
FormFields == {"slug", "description", "date", "draft"}
FieldValues(f) ==
    CASE f = "slug" -> {"", "t"}
      [] f = "description" -> {"", "D"}
      [] f = "date" -> {NewDate("d0"), NewDate("d1")}
      [] f = "draft" -> BOOLEAN

\* An input registered with the form, the calendar's onSelect and the
\* switch's onCheckedChange: setValue(f, v)
SetValue(f, v) ==
    /\ CanEdit
    /\ v # form[f]
    /\ form' = [form EXCEPT ![f] = v]
    /\ UNCHANGED <<storage, clock, mounted, page, hookVars, content,
                   showDraftDialog, draftRestored, queryVars>>
    /\ UNCHANGED <<editorVars, demoVars, routeVars>>
    /\ TimersFollowContent
    /\ HistoryOf("other")

\* TagInput addTag: a tag the list holds is not added
AddTag(t) ==
    /\ CanEdit
    /\ Len(form.tags) < MaxTags
    /\ \A i \in 1..Len(form.tags) : form.tags[i] # t
    /\ form' = [form EXCEPT !.tags = Append(form.tags, t)]
    /\ UNCHANGED <<storage, clock, mounted, page, hookVars, content,
                   showDraftDialog, draftRestored, queryVars>>
    /\ UNCHANGED <<editorVars, demoVars, routeVars>>
    /\ TimersFollowContent
    /\ HistoryOf("other")

\* TagInput removeTag(index)
RemoveTag(index) ==
    /\ CanEdit
    /\ index \in 1..Len(form.tags)
    /\ form' = [form EXCEPT !.tags =
                   SubSeq(form.tags, 1, index - 1)
                   \o SubSeq(form.tags, index + 1, Len(form.tags))]
    /\ UNCHANGED <<storage, clock, mounted, page, hookVars, content,
                   showDraftDialog, draftRestored, queryVars>>
    /\ UNCHANGED <<editorVars, demoVars, routeVars>>
    /\ TimersFollowContent
    /\ HistoryOf("other")

-----------------------------------------------------------------------------
(* MarkdownEditor: the toolbar.  A string is the sequence of its UTF-16 code
   units; the cursor restore that the handlers defer with setTimeout(0) is
   part of the handler's step. *)

Chars == {"a", "\n"}

\* The grave accent U+0060, a character no TLA+ string can hold.
Grave == "grave"

RECURSIVE TextsUpTo(_)
TextsUpTo(n) ==
    IF n = 0 THEN {<<>>}
    ELSE LET shorter == TextsUpTo(n - 1)
         IN  shorter \cup {Append(t, ch) : t \in {x \in shorter : Len(x) = n - 1}, ch \in Chars}

Min(a, b) == IF a < b THEN a ELSE b
Max(a, b) == IF a < b THEN b ELSE a

\* String.prototype.substring: both indices clamped to [0, length], swapped
\* when the first is the greater
substring(str, indexStart, indexEnd) ==
    LET a == Max(0, Min(indexStart, Len(str)))
        b == Max(0, Min(indexEnd, Len(str)))
    IN  SubSeq(str, Min(a, b) + 1, Max(a, b))

\* String.prototype.endsWith
endsWith(str, ch) == str # <<>> /\ str[Len(str)] = ch

\* insertAtCursor taking the rest of the text from one character too far.
ValueAfterWrapSkipsOne(value, ta, prefix, suffix, defaultText) ==
    LET start == ta.selectionStart
        end == ta.selectionEnd
        selectedText == substring(value, start, end)
        textToInsert == IF selectedText # <<>> THEN selectedText ELSE defaultText
        before == substring(value, 0, start)
        after == substring(value, end + 1, Len(value))
    IN  before \o prefix \o textToInsert \o suffix \o after

\* insertAtCursor(prefix, suffix, defaultText) on the value and the textarea
ValueAfterWrap(value, ta, prefix, suffix, defaultText) ==
    LET start == ta.selectionStart
        end == ta.selectionEnd
        selectedText == substring(value, start, end)
        textToInsert == IF selectedText # <<>> THEN selectedText ELSE defaultText
        before == substring(value, 0, start)
        after == substring(value, end, Len(value))
    IN  before \o prefix \o textToInsert \o suffix \o after

\* The cursor restore of insertAtCursor with the suffix left out of the sum.
CursorAfterWrapNoSuffix(value, ta, prefix, suffix) ==
    LET start == ta.selectionStart
        selectedText == substring(value, start, ta.selectionEnd)
        newCursorPos == IF selectedText # <<>>
                        THEN start + Len(prefix) + Len(selectedText)
                        ELSE start + Len(prefix)
    IN  [selectionStart |-> newCursorPos, selectionEnd |-> newCursorPos]

\* setSelectionRange(newCursorPos, newCursorPos) of insertAtCursor
CursorAfterWrap(value, ta, prefix, suffix) ==
    LET start == ta.selectionStart
        selectedText == substring(value, start, ta.selectionEnd)
        newCursorPos == IF selectedText # <<>>
                        THEN start + Len(prefix) + Len(selectedText) + Len(suffix)
                        ELSE start + Len(prefix)
    IN  [selectionStart |-> newCursorPos, selectionEnd |-> newCursorPos]

\* needsNewline of insertOnNewLine, without the test for an empty text.
NewlineBeforeAlways(value, ta) ==
    LET before == substring(value, 0, ta.selectionStart)
    IN  IF ~endsWith(before, "\n") THEN <<"\n">> ELSE <<>>

\* The prefix insertOnNewLine puts before the text
NewlineBefore(value, ta) ==
    LET before == substring(value, 0, ta.selectionStart)
        needsNewline == Len(before) > 0 /\ ~endsWith(before, "\n")
    IN  IF needsNewline THEN <<"\n">> ELSE <<>>

\* insertOnNewLine(text) on the value and the textarea
ValueAfterLine(value, ta, text) ==
    LET start == ta.selectionStart
        before == substring(value, 0, start)
        after == substring(value, start, Len(value))
    IN  before \o NewlineBefore(value, ta) \o text \o after

CursorAfterLine(value, ta, text) ==
    LET newCursorPos == ta.selectionStart + Len(NewlineBefore(value, ta)) + Len(text)
    IN  [selectionStart |-> newCursorPos, selectionEnd |-> newCursorPos]

\* The toolbar actions that call insertAtCursor, with their arguments.
WrapActions == {"bold", "italic", "inlineCode", "link", "image"}
Prefix(a) ==
    CASE a = "bold" -> <<"*", "*">> [] a = "italic" -> <<"*">> [] a = "inlineCode" -> <<Grave>>
      [] a = "link" -> <<"[">> [] a = "image" -> <<"!", "[">>
Suffix(a) ==
    CASE a = "bold" -> <<"*", "*">> [] a = "italic" -> <<"*">> [] a = "inlineCode" -> <<Grave>>
      [] a = "link" -> <<"]", "(", "u", "r", "l", ")">>
      [] a = "image" -> <<"]", "(", "u", "r", "l", ")">>
DefaultText(a) ==
    CASE a = "bold" -> <<"b", "o", "l", "d", " ", "t", "e", "x", "t">>
      [] a = "italic" -> <<"i", "t", "a", "l", "i", "c", " ", "t", "e", "x", "t">>
      [] a = "inlineCode" -> <<"c", "o", "d", "e">>
      [] a = "link" -> <<"l", "i", "n", "k", " ", "t", "e", "x", "t">>
      [] a = "image" -> <<"a", "l", "t", " ", "t", "e", "x", "t">>

\* The toolbar actions that call insertOnNewLine, with their text.
LineActions ==
    {"h1", "h2", "h3", "bulletList", "numberedList", "quote", "codeBlock",
     "horizontalRule"}
LineText(a) ==
    CASE a = "h1" -> <<"#", " ">> [] a = "h2" -> <<"#", "#", " ">> [] a = "h3" -> <<"#", "#", "#", " ">>
      [] a = "bulletList" -> <<"-", " ">> [] a = "numberedList" -> <<"1", ".", " ">>
      [] a = "quote" -> <<">", " ">>
      [] a = "codeBlock" -> <<Grave, Grave, Grave, "\n", "\n", Grave, Grave, Grave>>
      [] a = "horizontalRule" -> <<"\n", "-", "-", "-", "\n">>

\* A toolbar button of the insertAtCursor family: onChange(newText) is
\* setContent of the page, then the cursor is restored.
ToolbarWrap(a) ==
    /\ CanEdit
    /\ Len(content) <= MaxLen
    /\ content' = ValueAfterWrap(content, textarea, Prefix(a), Suffix(a), DefaultText(a))
    /\ textarea' = CursorAfterWrap(content, textarea, Prefix(a), Suffix(a))
    /\ UNCHANGED <<storage, clock, mounted, page, hookVars, form,
                   showDraftDialog, draftRestored, queryVars, demoVars, routeVars>>
    /\ TimersFollowContent
    /\ HistoryOf(a)

\* A toolbar button of the insertOnNewLine family.
ToolbarLine(a) ==
    /\ CanEdit
    /\ Len(content) <= MaxLen
    /\ content' = ValueAfterLine(content, textarea, LineText(a))
    /\ textarea' = CursorAfterLine(content, textarea, LineText(a))
    /\ UNCHANGED <<storage, clock, mounted, page, hookVars, form,
                   showDraftDialog, draftRestored, queryVars, demoVars, routeVars>>
    /\ TimersFollowContent
    /\ HistoryOf(a)

-----------------------------------------------------------------------------
(* The demo API: route handlers over the in-memory postsStore.  A post is its
   slug, title and draft flag. *)

\* Array.prototype.findIndex, 1-based; 0 for -1
findIndex(store, slug) ==
    IF \E i \in 1..Len(store) : store[i].slug = slug
    THEN CHOOSE i \in 1..Len(store) :
           /\ store[i].slug = slug
           /\ \A j \in 1..(i - 1) : store[j].slug # slug
    ELSE 0

getMockPost(store, slug) ==
    IF findIndex(store, slug) = 0 THEN undefined ELSE store[findIndex(store, slug)]

RECURSIVE getMockPostList(_, _)
getMockPostList(store, includeDrafts) ==
    IF store = <<>> THEN <<>>
    ELSE LET rest == getMockPostList(Tail(store), includeDrafts)
         IN  IF includeDrafts \/ ~Head(store).draft
             THEN <<Head(store)>> \o rest
             ELSE rest

\* createMockPost: postsStore.unshift(newPost)
createMockPost(store, data) == <<data>> \o store

\* updateMockPost on a slug the store has: { ...postsStore[index], ...data }
updateMockPost(store, slug, data) ==
    LET index == findIndex(store, slug)
    IN  [store EXCEPT ![index] =
            [f \in DOMAIN store[index] |->
                IF f \in DOMAIN data THEN data[f] ELSE store[index][f]]]

\* deleteMockPost on a slug the store has: postsStore.splice(index, 1)
deleteMockPost(store, slug) ==
    LET index == findIndex(store, slug)
    IN  SubSeq(store, 1, index - 1) \o SubSeq(store, index + 1, Len(store))

\* The bodies a client sends: CreatePostData and UpdatePostData.
CreateBodies == {[slug |-> sl, title |-> "T"] : sl \in DemoSlugs}
UpdateBodies == {[title |-> "U"], [draft |-> FALSE]}

DemoFrame ==
    UNCHANGED <<storage, clock, mounted, page, routeVars, timeVars, hookVars,
                pageVars, editorVars, queryVars, histVars>>

\* GET /api/posts?include_drafts=...
ListPosts(includeDrafts) ==
    /\ response' = [status |-> 200, body |-> getMockPostList(postsStore, includeDrafts)]
    /\ UNCHANGED <<postsStore, hDeleted>>
    /\ DemoFrame

\* POST /api/posts
PostPost(data) ==
    /\ Len(postsStore) < MaxPosts
    /\ LET newPost == [slug |-> data.slug, title |-> data.title, draft |-> TRUE]
       IN  /\ postsStore' = createMockPost(postsStore, newPost)
           /\ response' = [status |-> 201, body |-> newPost]
    /\ hDeleted' = hDeleted \ {data.slug}
    /\ DemoFrame

\* GET /api/posts/{slug}
GetPost(slug) ==
    /\ response' = IF getMockPost(postsStore, slug) = undefined
                   THEN [status |-> 404, body |-> undefined]
                   ELSE [status |-> 200, body |-> getMockPost(postsStore, slug)]
    /\ UNCHANGED <<postsStore, hDeleted>>
    /\ DemoFrame

\* PUT /api/posts/{slug}
PutPost(slug, data) ==
    /\ IF findIndex(postsStore, slug) = 0
       THEN /\ response' = [status |-> 404, body |-> undefined]
            /\ UNCHANGED postsStore
       ELSE /\ postsStore' = updateMockPost(postsStore, slug, data)
            /\ response' = [status |-> 200, body |-> getMockPost(postsStore', slug)]
    /\ UNCHANGED hDeleted
    /\ DemoFrame

\* DELETE /api/posts/{slug}
DeletePost(slug) ==
    /\ IF findIndex(postsStore, slug) = 0
       THEN /\ response' = [status |-> 404, body |-> undefined]
            /\ UNCHANGED <<postsStore, hDeleted>>
       ELSE /\ postsStore' = deleteMockPost(postsStore, slug)
            /\ response' = [status |-> 204, body |-> undefined]
            /\ hDeleted' = hDeleted \cup {slug}
    /\ DemoFrame

-----------------------------------------------------------------------------
(* The draft recovery dialog *)

DialogShown == CurRendered /\ showDraftDialog

\* handleRestoreDraft.  A stored JSON value that is truthy but no snapshot
\* resets the form to undefined fields and an Invalid Date; the next render
\* of FrontmatterForm throws in format(), and the error boundary unmounts
\* the page.
handleRestoreDraft ==
    /\ DialogShown
    /\ LET draft == loadDraft(storage[storageKey(page)])
       IN  IF draft = JsNull
           THEN /\ showDraftDialog' = FALSE
                /\ UNCHANGED <<form, content, draftRestored, mounted, checkTimer,
                               saveTimer>>
           ELSE IF ~IsSnapshot(draft)
           THEN /\ mounted' = FALSE
                /\ checkTimer' = TimersAfterCleanup[1]
                /\ saveTimer' = TimersAfterCleanup[2]
                /\ form' = NoForm
                /\ content' = ""
                /\ showDraftDialog' = FALSE
                /\ UNCHANGED draftRestored
           ELSE /\ form' = [title |-> draft.title, slug |-> draft.slug,
                            description |-> draft.description,
                            date |-> NewDate(draft.date), draft |-> draft.draft,
                            tags |-> draft.tags]
                /\ draftRestored' = IF page = "edit" THEN TRUE ELSE draftRestored
                /\ content' = ContentEffect(page, CurContentDeps, post, draftRestored',
                                            draft.content)
                /\ showDraftDialog' = FALSE
                /\ UNCHANGED <<mounted, checkTimer, saveTimer>>
    /\ UNCHANGED <<storage, clock, page, status, lastSaved, hasUnsavedChanges,
                   hasDraft, isHydrated, lastSavedHashRef, queryVars>>
    /\ UNCHANGED <<editorVars, demoVars, routeVars>>
    /\ TimersFollowContent
    /\ HistoryOf("restore")

\* handleDiscardDraft: clearDraft(), close; the effect sees hasDraft false
handleDiscardDraft ==
    /\ DialogShown
    /\ SetHook(clearDraft(HookState))
    /\ showDraftDialog' =
         DialogEffect(page, CurDialogDeps, isHydrated, hasDraft', post, FALSE)
    /\ UNCHANGED <<clock, mounted, page, isHydrated, checkTimer, saveTimer,
                   form, content, draftRestored, queryVars>>
    /\ UNCHANGED <<editorVars, demoVars, routeVars>>
    /\ TimersFollowContent
    /\ HistoryOf("discard")

\* AlertDialog onOpenChange(false): the Escape key closes the dialog
DismissDialog ==
    /\ DialogShown
    /\ showDraftDialog' = FALSE
    /\ UNCHANGED <<storage, clock, mounted, page, hookVars, form, content,
                   draftRestored, queryVars>>
    /\ UNCHANGED <<editorVars, demoVars, routeVars>>
    /\ TimersFollowContent
    /\ HistoryOf("other")

-----------------------------------------------------------------------------
(* The create/update mutation *)

\* The variables handleSubmit passes to mutate(), and the page that did.
MutationVariables(pg, f, c) ==
    [page |-> pg, title |-> f.title, description |-> f.description,
     date |-> FormatDay(f.date), draft |-> f.draft, tags |-> f.tags,
     content |-> c]

\* handleSubmit behind the form's validation; the submit button is disabled
\* while a mutation is pending.
handleSubmit ==
    /\ CanEdit
    /\ FormIsValid(form)
    /\ mutation = NoMutation
    /\ mutation' = MutationVariables(page, form, content)
    /\ UNCHANGED <<storage, clock, mounted, page, hookVars, pageVars, post,
                   fetching, queryError, remote>>
    /\ UNCHANGED <<editorVars, demoVars, routeVars>>
    /\ TimersFollowContent
    /\ HistoryOf("other")

\* The session that issued the mutation is still mounted.
OwnerMounted == mounted

\* The request succeeds: the remote store takes the data (updateMockPost
\* merges it into the post), then onSuccess runs clearDraft() and, on the
\* edit page, invalidates the post query, which refetches if it is in use.
\* onSuccess of useMutation runs also when the page has unmounted; its state
\* updates are then dropped, its removeItem is not.
MutateSuccess ==
    /\ mutation # NoMutation
    /\ mutation' = NoMutation
    /\ remote' = IF mutation.page = "edit"
                 THEN [remote EXCEPT !.title = mutation.title,
                                     !.description = mutation.description,
                                     !.date = mutation.date,
                                     !.draft = mutation.draft,
                                     !.tags = mutation.tags,
                                     !.content = mutation.content]
                 ELSE remote
    /\ storage' = [storage EXCEPT ![storageKey(mutation.page)] = Absent]
    /\ IF OwnerMounted
       THEN /\ hasDraft' = FALSE
            /\ lastSaved' = NoDate
            /\ showDraftDialog' =
                 DialogEffect(page, CurDialogDeps, isHydrated, FALSE, post,
                              showDraftDialog)
       ELSE UNCHANGED <<hasDraft, lastSaved, showDraftDialog>>
    /\ fetching' = IF mutation.page = "edit" /\ mounted /\ page = "edit"
                   THEN TRUE ELSE fetching
    /\ UNCHANGED <<clock, mounted, page, status, hasUnsavedChanges, isHydrated,
                   lastSavedHashRef, checkTimer, saveTimer, form, content,
                   draftRestored, post, queryError>>
    /\ UNCHANGED <<editorVars, demoVars, routeVars>>
    /\ TimersFollowContent
    /\ lastOp' = "other"
    /\ ret' = "none"
    /\ opened' = (opened \/ DialogOpens)
    /\ hAck' = hAck
    /\ hPass' = hPass
    /\ hStale' = FALSE
    /\ hCommitClean' = (OwnerMounted /\ form # NoForm
                        /\ mutation = MutationVariables(page, form, content))
    /\ hWritten' = IF storage'[storageKey(page)] = Absent THEN NoState ELSE hWritten

\* The request fails: onError shows a toast.
MutateError ==
    /\ mutation # NoMutation
    /\ mutation' = NoMutation
    /\ UNCHANGED <<storage, clock, mounted, page, hookVars, pageVars, post,
                   fetching, queryError, remote>>
    /\ UNCHANGED <<editorVars, demoVars, routeVars>>
    /\ TimersFollowContent
    /\ HistoryOf("other")

-----------------------------------------------------------------------------
(* The two interval timers of useLocalDraft *)

RetOf(b) == IF b THEN "true" ELSE "false"

\* The live state a check evaluation acknowledges: the first one with data
\* since the mount takes it as the baseline.
AckAfterCheck(data) == IF data # NoData /\ hAck = NoState THEN data ELSE hAck

\* A tick of changeCheckInterval: checkForChanges()
CheckTick ==
    /\ checkTimer = "armed"
    /\ Due(timerAge, "check", CheckPeriod)
    /\ LET c == checkForChanges(HookState, getData)
       IN  /\ SetHook(c.h)
           /\ ret' = RetOf(c.ret)
    /\ showDraftDialog' =
         DialogEffect(page, CurDialogDeps, isHydrated, hasDraft', post, showDraftDialog)
    /\ UNCHANGED <<clock, mounted, page, isHydrated, checkTimer, saveTimer,
                   form, content, draftRestored, queryVars>>
    /\ UNCHANGED <<editorVars, demoVars, routeVars>>
    /\ timerAge' = AfterFire(timerAge, "check")
    /\ lastOp' = "check"
    /\ opened' = (opened \/ DialogOpens)
    /\ hAck' = AckAfterCheck(getData)
    /\ hPass' = hPass
    /\ hStale' = FALSE
    /\ hCommitClean' = hCommitClean
    /\ hWritten' = hWritten

\* A tick of autoSaveInterval: checkForChanges(), then saveDraft() if it
\* reported changes.  setItem may throw; the exception leaves the callback.
PersistTick ==
    /\ saveTimer = "armed"
    /\ Due(timerAge, "save", SavePeriod)
    /\ \E ok \in BOOLEAN :
         LET r == autoSave(HookState, getData, ok, clock)
             attempted == r.wrote \/ r.threw
         IN  /\ attempted => clock <= MaxWrites
             /\ attempted \/ ok
             /\ SetHook(r.h)
             /\ clock' = IF r.wrote THEN clock + 1 ELSE clock
             /\ ret' = RetOf(r.ret)
             /\ hAck' = IF r.wrote THEN getData ELSE AckAfterCheck(getData)
             /\ hWritten' = IF r.wrote THEN getData ELSE hWritten
             /\ hPass' = IF r.threw THEN "threw"
                         ELSE IF hPass \in {"clean", "repeat"} THEN "repeat"
                         ELSE "clean"
    /\ showDraftDialog' =
         DialogEffect(page, CurDialogDeps, isHydrated, hasDraft', post, showDraftDialog)
    /\ UNCHANGED <<mounted, page, isHydrated, checkTimer, saveTimer,
                   form, content, draftRestored, queryVars>>
    /\ UNCHANGED <<editorVars, demoVars, routeVars>>
    /\ timerAge' = AfterFire(timerAge, "save")
    /\ lastOp' = "persist"
    /\ opened' = (opened \/ DialogOpens)
    /\ hCommitClean' = hCommitClean
    /\ hStale' = (ret' = "true" /\ ~hasUnsavedChanges)

\* saveDraft() as the hook returns it, called by the owner of the hook.
ManualSaveDraft ==
    /\ mounted
    /\ \E ok \in BOOLEAN :
         LET s == saveDraft(HookState, getData, ok, clock)
             attempted == s.wrote \/ s.threw
         IN  /\ attempted => clock <= MaxWrites
             /\ attempted \/ ok
             /\ SetHook(s.h)
             /\ clock' = IF s.wrote THEN clock + 1 ELSE clock
             /\ hAck' = IF s.wrote THEN getData ELSE hAck
             /\ hWritten' = IF s.wrote THEN getData ELSE hWritten
    /\ showDraftDialog' =
         DialogEffect(page, CurDialogDeps, isHydrated, hasDraft', post, showDraftDialog)
    /\ UNCHANGED <<mounted, page, isHydrated, checkTimer, saveTimer,
                   form, content, draftRestored, queryVars>>
    /\ UNCHANGED <<editorVars, demoVars, routeVars>>
    /\ TimersFollowContent
    /\ lastOp' = "saveDraft"
    /\ ret' = "none"
    /\ opened' = (opened \/ DialogOpens)
    /\ hPass' = hPass
    /\ hStale' = FALSE
    /\ hCommitClean' = hCommitClean

-----------------------------------------------------------------------------
(* Specifications *)

Next ==
    \/ Mount
    \/ Unmount
    \/ FetchDone
    \/ FetchFail
    \/ \E c \in Contents : EditContent(c)
    \/ \E t \in Titles(page) : EditTitle(t)
    \/ \E d \in Descriptions(page) : EditDescription(d)
    \/ \E ts \in TagLists(page) : EditTags(ts)
    \/ handleRestoreDraft
    \/ handleDiscardDraft
    \/ DismissDialog
    \/ handleSubmit
    \/ MutateSuccess
    \/ MutateError
    \/ CheckTick
    \/ PersistTick

\* The pages as the repository has them: nothing calls saveDraft() directly.
Spec == Init /\ [][Next]_vars

\* The hook with every function it returns in use, in a session that is
\* opened, edited and saved.
NextApi ==
    \/ Mount
    \/ FetchDone
    \/ \E c \in Contents : EditContent(c)
    \/ CheckTick
    \/ PersistTick
    \/ ManualSaveDraft

SpecApi == Init /\ [][NextApi]_vars

\* The change detector alone: a new-post session just after its first
\* dirty-check took the form (with any tags) as the baseline; the user then
\* edits any field and the dirty-check ticks.
InitHash ==
    /\ routeSlug = EditSlug
    /\ timerAge = Untimed
    /\ page = "new"
    /\ storage = [k \in Keys |-> Absent]
    /\ clock = 1
    /\ mounted = TRUE
    /\ status = "idle"
    /\ lastSaved = NoDate
    /\ hasUnsavedChanges = FALSE
    /\ hasDraft = FALSE
    /\ isHydrated = TRUE
    /\ \E ts \in TagInputLists(MaxTags) :
         form = [FormDefaults("new", NoPost) EXCEPT !.tags = ts]
    /\ content = ""
    /\ textarea = CursorAtStart
    /\ DemoAtStart
    /\ lastSavedHashRef = dataToHash(getDataOf(form, content))
    /\ checkTimer = "armed"
    /\ saveTimer = "armed"
    /\ showDraftDialog = FALSE
    /\ draftRestored = FALSE
    /\ post = NoPost
    /\ fetching = FALSE
    /\ queryError = FALSE
    /\ remote = InitialPost
    /\ mutation = NoMutation
    /\ lastOp = "check"
    /\ ret = "false"
    /\ opened = FALSE
    /\ hAck = getDataOf(form, content)
    /\ hPass = "changed"
    /\ hCommitClean = FALSE
    /\ hStale = FALSE
    /\ hWritten = IF storage[storageKey(page)] = JSONstringify(OldSnapshot(page))
                  THEN OldLive(page) ELSE NoState

NextHash ==
    \/ \E c \in Contents : EditContent(c)
    \/ \E t \in HashTitles : EditTitle(t)
    \/ \E f \in FormFields : \E v \in FieldValues(f) : SetValue(f, v)
    \/ \E t \in Tags : AddTag(t)
    \/ \E index \in 1..MaxTags : RemoveTag(index)
    \/ CheckTick

SpecHash == InitHash /\ [][NextHash]_vars

-----------------------------------------------------------------------------
(* The mounted new page whose storage never refuses a write, with the
   auto-save interval firing again and again; the user edits while the
   bound on the writes leaves room for the write that follows *)

\* A tick of the auto-save interval in which setItem does not throw.
PersistTickOk == PersistTick /\ hPass' # "threw"

\* The form starts with its default values.
InitFair == InitHash /\ form = FormDefaults("new", NoPost)

NextFair ==
    \/ clock <= MaxWrites /\ \E c \in Contents : EditContent(c)
    \/ clock <= MaxWrites /\ \E t \in HashTitles : EditTitle(t)
    \/ clock <= MaxWrites /\ handleRestoreDraft
    \/ handleDiscardDraft
    \/ DismissDialog
    \/ CheckTick
    \/ PersistTickOk

\* setInterval keeps calling the callback while the page is mounted.
SpecFair == InitFair /\ [][NextFair]_vars /\ WF_vars(PersistTickOk)

-----------------------------------------------------------------------------
(* The hook with time: the new page is mounted, hydrated and past its first
   check, both intervals have just been started *)

InitTimer ==
    /\ routeSlug = EditSlug
    /\ timerAge = [check |-> 0, save |-> 0, idle |-> 0]
    /\ page = "new"
    /\ storage = [k \in Keys |-> Absent]
    /\ clock = 1
    /\ mounted = TRUE
    /\ status = "idle"
    /\ lastSaved = NoDate
    /\ hasUnsavedChanges = FALSE
    /\ hasDraft = FALSE
    /\ isHydrated = TRUE
    /\ form = FormDefaults("new", NoPost)
    /\ content = ""
    /\ textarea = CursorAtStart
    /\ DemoAtStart
    /\ lastSavedHashRef = dataToHash(getDataOf(form, content))
    /\ checkTimer = "armed"
    /\ saveTimer = "armed"
    /\ showDraftDialog = FALSE
    /\ draftRestored = FALSE
    /\ post = NoPost
    /\ fetching = FALSE
    /\ queryError = FALSE
    /\ remote = InitialPost
    /\ mutation = NoMutation
    /\ lastOp = "check"
    /\ ret = "false"
    /\ opened = FALSE
    /\ hAck = getDataOf(form, content)
    /\ hPass = "changed"
    /\ hCommitClean = FALSE
    /\ hStale = FALSE
    /\ hWritten = NoState

\* One period of the change-check interval passes; a timer that is due
\* fires first.
Advance ==
    /\ timerAge # Untimed
    /\ timerAge.check < CheckPeriod
    /\ timerAge.save < SavePeriod
    /\ timerAge' = [check |-> timerAge.check + 1,
                    save |-> timerAge.save + 1,
                    idle |-> Min(timerAge.idle + 1, SavePeriod)]
    /\ UNCHANGED <<storage, clock, mounted, page, hookVars, pageVars, queryVars>>
    /\ UNCHANGED <<editorVars, demoVars, routeVars>>
    /\ HistoryOf("advance")

NextTimer ==
    \/ Advance
    \/ \E c \in Contents : EditContent(c)
    \/ \E t \in HashTitles : EditTitle(t)
    \/ CheckTick
    \/ PersistTick

SpecTimer == InitTimer /\ [][NextTimer]_vars

\* The toolbar alone: a new-post session just after its first dirty-check,
\* the editor holding any text with any selection in it.
InitEditor ==
    /\ routeSlug = EditSlug
    /\ timerAge = Untimed
    /\ page = "new"
    /\ storage = [k \in Keys |-> Absent]
    /\ clock = 1
    /\ mounted = TRUE
    /\ status = "idle"
    /\ lastSaved = NoDate
    /\ hasUnsavedChanges = FALSE
    /\ hasDraft = FALSE
    /\ isHydrated = TRUE
    /\ form = FormDefaults("new", NoPost)
    /\ content \in TextsUpTo(MaxLen)
    /\ \E selStart \in 0..Len(content) : \E selEnd \in selStart..Len(content) :
         textarea = [selectionStart |-> selStart, selectionEnd |-> selEnd]
    /\ DemoAtStart
    /\ lastSavedHashRef = dataToHash(getDataOf(form, content))
    /\ checkTimer = "armed"
    /\ saveTimer = "armed"
    /\ showDraftDialog = FALSE
    /\ draftRestored = FALSE
    /\ post = NoPost
    /\ fetching = FALSE
    /\ queryError = FALSE
    /\ remote = InitialPost
    /\ mutation = NoMutation
    /\ lastOp = "check"
    /\ ret = "false"
    /\ opened = FALSE
    /\ hAck = getDataOf(form, content)
    /\ hPass = "changed"
    /\ hCommitClean = FALSE
    /\ hStale = FALSE
    /\ hWritten = NoState

NextEditor ==
    \/ \E a \in WrapActions : ToolbarWrap(a)
    \/ \E a \in LineActions : ToolbarLine(a)

SpecEditor == InitEditor /\ [][NextEditor]_vars

\* The demo API alone, the editor pages not open.
InitDemo ==
    /\ routeSlug = EditSlug
    /\ timerAge = Untimed
    /\ page = "new"
    /\ storage = [k \in Keys |-> Absent]
    /\ clock = 1
    /\ mounted = FALSE
    /\ status = "idle"
    /\ lastSaved = NoDate
    /\ hasUnsavedChanges = FALSE
    /\ hasDraft = FALSE
    /\ isHydrated = FALSE
    /\ lastSavedHashRef = NoHash
    /\ checkTimer = "none"
    /\ saveTimer = "none"
    /\ form = NoForm
    /\ content = ""
    /\ textarea = CursorAtStart
    /\ showDraftDialog = FALSE
    /\ draftRestored = FALSE
    /\ post = NoPost
    /\ fetching = FALSE
    /\ queryError = FALSE
    /\ remote = InitialPost
    /\ mutation = NoMutation
    /\ lastOp = "init"
    /\ ret = "none"
    /\ opened = FALSE
    /\ hAck = NoState
    /\ hPass = "changed"
    /\ hCommitClean = FALSE
    /\ hStale = FALSE
    /\ hWritten = NoState
    /\ DemoAtStart

NextDemo ==
    \/ \E includeDrafts \in BOOLEAN : ListPosts(includeDrafts)
    \/ \E data \in CreateBodies : PostPost(data)
    \/ \E slug \in DemoSlugs : GetPost(slug)
    \/ \E slug \in DemoSlugs : \E data \in UpdateBodies : PutPost(slug, data)
    \/ \E slug \in DemoSlugs : DeletePost(slug)

SpecDemo == InitDemo /\ [][NextDemo]_vars

\* The contexts side by side: the storage holds, under the key of each
\* context, nothing or a snapshot of an earlier session on that context,
\* and one session runs on the new post or on the post EditSlug.
OldLiveOf(c) == [OldLive(c.page) EXCEPT !.slug = IF c.page = "new" THEN @ ELSE c.slug]
OldStringOf(c) == saveDraft(OldHook, OldLiveOf(c), TRUE, 0).h.stored

InitStore ==
    /\ routeSlug = EditSlug
    /\ timerAge = Untimed
    /\ page \in {"new", "edit"}
    /\ \E held \in SUBSET Contexts :
         storage = [k \in AllKeys |->
                      IF \E c \in held : ContextKey(c) = k
                      THEN OldStringOf(CHOOSE c \in held : ContextKey(c) = k)
                      ELSE Absent]
    /\ clock = 1
    /\ mounted = FALSE
    /\ status = "idle"
    /\ lastSaved = NoDate
    /\ hasUnsavedChanges = FALSE
    /\ hasDraft = FALSE
    /\ isHydrated = FALSE
    /\ lastSavedHashRef = NoHash
    /\ checkTimer = "none"
    /\ saveTimer = "none"
    /\ form = NoForm
    /\ content = ""
    /\ textarea = CursorAtStart
    /\ DemoAtStart
    /\ showDraftDialog = FALSE
    /\ draftRestored = FALSE
    /\ post = NoPost
    /\ fetching = FALSE
    /\ queryError = FALSE
    /\ remote = InitialPost
    /\ mutation = NoMutation
    /\ lastOp = "init"
    /\ ret = "none"
    /\ opened = FALSE
    /\ hAck = NoState
    /\ hPass = "changed"
    /\ hCommitClean = FALSE
    /\ hStale = FALSE
    /\ hWritten = IF storage[storageKey(page)] = Absent THEN NoState
                  ELSE OldLive(page)

NextStore ==
    \/ Mount
    \/ FetchDone
    \/ \E c \in Contents : EditContent(c)
    \/ handleRestoreDraft
    \/ handleDiscardDraft
    \/ CheckTick
    \/ PersistTick

SpecStore == InitStore /\ [][NextStore]_vars

\* The hydration effect running again in a mounted hook: it only ever sets
\* hasDraft to true and lastSaved to a date.
Rehydrate(h, saved) ==
    IF IsFalsyString(saved) THEN h
    ELSE LET draft == JSONparse(saved)
         IN  IF draft = SyntaxError THEN h
             ELSE IF draft = JsNull THEN [h EXCEPT !.hasDraft = TRUE]
             ELSE [h EXCEPT !.hasDraft = TRUE, !.lastSaved = NewDateOfSavedAt(draft)]

\* The fields of a stored snapshot without its savedAt.
LiveOfSnapshot(snap) ==
    [title |-> snap.title, slug |-> snap.slug, description |-> snap.description,
     date |-> snap.date, draft |-> snap.draft, tags |-> snap.tags,
     content |-> snap.content]

\* The mounted edit page is rendered for another slug: the hook gets another
\* key while its state and lastSavedHashRef live on, the effects that depend
\* on storageKey run again, the query of the new slug has no data yet and the
\* page shows its loading state.
Rekey(sl) ==
    /\ mounted /\ page = "edit"
    /\ sl # routeSlug
    /\ mutation = NoMutation
    /\ routeSlug' = sl
    /\ LET newKey == storageKeyOf(DraftKey(page, sl))
           h == Rehydrate(HookState, storage[newKey])
       IN  /\ hasDraft' = h.hasDraft
           /\ lastSaved' = h.lastSaved
           /\ hWritten' = IF storage[newKey] = Absent THEN NoState
                          ELSE LiveOfSnapshot(JSONparse(storage[newKey]))
    /\ post' = NoPost
    /\ fetching' = TRUE
    /\ queryError' = FALSE
    /\ remote' = [remote EXCEPT !.slug = sl]
    /\ form' = FormAfter(CurRendered, BodyRendered(page, post', queryError'), page, post', form)
    /\ content' = ContentEffect(page, CurContentDeps, post', draftRestored, content)
    /\ showDraftDialog' =
         DialogEffect(page, CurDialogDeps, isHydrated, hasDraft', post', showDraftDialog)
    /\ UNCHANGED <<storage, clock, mounted, page, status, hasUnsavedChanges,
                   isHydrated, lastSavedHashRef, checkTimer, saveTimer,
                   draftRestored, mutation>>
    /\ UNCHANGED <<editorVars, demoVars>>
    \* saveDraft depends on storageKey: the auto-save interval starts again
    /\ timerAge' = IF content' # content THEN Restarted(timerAge)
                   ELSE AfterFire(timerAge, "save")
    /\ lastOp' = "rekey"
    /\ ret' = "none"
    /\ opened' = (opened \/ DialogOpens)
    /\ hAck' = hAck
    /\ hPass' = "changed"
    /\ hStale' = FALSE
    /\ hCommitClean' = FALSE

NextRekey ==
    \/ Mount
    \/ FetchDone
    \/ \E c \in Contents : EditContent(c)
    \/ PersistTick
    \/ \E sl \in Slugs : Rekey(sl)

SpecRekey == InitStore /\ [][NextRekey]_vars

-----------------------------------------------------------------------------
(* Properties *)

Stored == storage[storageKey(page)]

\* C1: within one mount of an editing page the draft-recovery dialog opens
\* at most once, and no dirty-check tick and no persist tick opens it.
DialogOpensOnceAndNeverByTick ==
    [][DialogOpens => (~opened /\ lastOp' \notin {"check", "persist"})]_vars

\* C2: the first dirty-check after mount that finds a live state returns
\* false, leaves hasUnsavedChanges false and takes that state as the
\* baseline; every later dirty-check returns true exactly when the
\* fingerprint of the live state differs from the baseline (the state of the
\* first check, or of the last save).
BaselineSuppression ==
    [][(lastOp' \in {"check", "persist"} /\ getData # NoData) =>
         IF hAck = NoState
         THEN /\ ret' = "false"
              /\ ~hasUnsavedChanges'
              /\ lastSavedHashRef' = dataToHash(getData)
              /\ hAck' = getData
         ELSE ret' = RetOf(dataToHash(getData) # dataToHash(hAck))]_vars

\* A first dirty-check on a non-empty live state (the loaded post) has
\* returned false.
BaselineSuppressionWitness ==
    /\ lastOp = "check" /\ ret = "false"
    /\ page = "edit" /\ status = "idle" /\ ~hasUnsavedChanges
    /\ getData # NoData /\ getData.content = "x"
    /\ hAck = getData
    /\ lastSavedHashRef = dataToHash(getData)

\* C3 (amended): of two consecutive persist passes between which the live
\* state does not change, the second writes nothing, so the stored snapshot
\* and lastSaved are after it what they were after the first - provided the
\* storage write of the first pass did not fail.
SecondPassWritesNothing ==
    [][(lastOp' = "persist" /\ hPass \in {"clean", "repeat"}) =>
         (storage' = storage /\ lastSaved' = lastSaved)]_vars

\* A second pass has run after a pass that wrote, with the live state
\* unchanged, and the snapshot of the first pass is what is stored.
SecondPassWitness ==
    /\ lastOp = "persist" /\ hPass = "repeat"
    /\ status = "saved"
    /\ getData # NoData
    /\ \E t \in 1..MaxWrites :
         /\ lastSaved = [time |-> t]
         /\ Stored # Absent
         /\ IsSnapshot(JSONparse(Stored))
         /\ JSONparse(Stored).savedAt = t
         /\ JSONparse(Stored).content = getData.content

\* C3 as stated: the second of two consecutive persist passes without a
\* change of the live state writes nothing, whatever the first pass did.
SecondPassWritesNothingEvenAfterFailure ==
    [][(lastOp' = "persist" /\ hPass # "changed") =>
         (storage' = storage /\ lastSaved' = lastSaved)]_vars

\* C4: after a successful commit, while the session stays mounted and the
\* live state is the committed one, the storage holds no snapshot for the
\* context.
CommitDestroysDraft ==
    (mounted /\ hCommitClean) => Stored = Absent

\* C5: from every reachable hook state saveDraft() yields the same storage
\* content, baseline, status, hasDraft and hasUnsavedChanges as a persist
\* tick fired in that state.
ManualSaveIsPersistTick ==
    mounted =>
        \A ok \in BOOLEAN :
            LET m == saveDraft(HookState, getData, ok, clock).h
                t == autoSave(HookState, getData, ok, clock).h
            IN  <<m.stored, m.ref, m.status, m.hasDraft, m.hasUnsavedChanges>>
                = <<t.stored, t.ref, t.status, t.hasDraft, t.hasUnsavedChanges>>

\* C6: between passes status is "idle" or "saved", never "saving".
SavingIsTransient == status \in {"idle", "saved"}

\* C7 (amended): after the session is unmounted both timers are cancelled,
\* no dirty-check tick and no persist tick fires, and status, lastSaved,
\* hasDraft and hasUnsavedChanges never change; the storage changes only
\* when a commit that was in flight at the unmount succeeds and removes the
\* snapshot of the context.
TeardownCancelsTimers ==
    [][(~mounted /\ ~mounted') =>
         /\ checkTimer' = "none" /\ saveTimer' = "none"
         /\ lastOp' \notin {"check", "persist"}
         /\ UNCHANGED <<status, lastSaved, hasDraft, hasUnsavedChanges>>
         /\ storage' # storage =>
              /\ mutation # NoMutation /\ mutation' = NoMutation
              /\ storage' = [storage EXCEPT ![storageKey(mutation.page)] = Absent]]_vars

\* The session has ended with a snapshot stored and a commit in flight, and
\* the commit has succeeded since: the snapshot is gone, the state of the
\* hook is what it was.
TeardownWitness ==
    /\ ~mounted /\ lastOp # "init"
    /\ checkTimer = "none" /\ saveTimer = "none"
    /\ mutation = NoMutation
    /\ status = "saved" /\ hasDraft /\ lastSaved # NoDate
    /\ Stored = Absent

\* C7 as stated: after the unmount storage, status, lastSaved, hasDraft and
\* hasUnsavedChanges never change.
NothingChangesAfterTeardown ==
    [][(~mounted /\ ~mounted') =>
         UNCHANGED <<storage, status, lastSaved, hasDraft, hasUnsavedChanges>>]_vars

\* C8: with a stored string that is not the serialisation of a snapshot,
\* hydration leaves hasDraft false and loadDraft() returns null.
CorruptDraftIsAbsent ==
    (mounted /\ isHydrated /\ Stored \in CorruptStrings) =>
        (~hasDraft /\ loadDraft(Stored) = JsNull)

\* Occurrences of tag t in a tag list.
Count(t, tags) == Cardinality({i \in 1..Len(tags) : tags[i] = t})

SameModuloTagOrder(x, y) ==
    /\ x.title = y.title /\ x.slug = y.slug /\ x.description = y.description
    /\ x.date = y.date /\ x.draft = y.draft /\ x.content = y.content
    /\ \A t \in Tags : Count(t, x.tags) = Count(t, y.tags)

\* C9: a dirty-check reports no change (returns false, hasUnsavedChanges
\* false) exactly when title, slug, description, date, draft and content of
\* the live state equal those of the baseline and the tags are the same up
\* to their order.
FingerprintIsFieldsModuloTagOrder ==
    lastOp = "check" =>
        /\ (ret = "false") <=> SameModuloTagOrder(getData, hAck)
        /\ hasUnsavedChanges <=> ~SameModuloTagOrder(getData, hAck)
        /\ (dataToHash(getData) = dataToHash(hAck))
             <=> SameModuloTagOrder(getData, hAck)

\* The baseline has tags [a,b], the live state tags [b,a] and the same
\* other fields, and the dirty-check has reported no change.
FingerprintWitness ==
    /\ lastOp = "check" /\ ret = "false" /\ ~hasUnsavedChanges
    /\ hAck.tags = <<"a", "b">>
    /\ getData.tags = <<"b", "a">>

\* C10: on the edit page, once a snapshot has been restored, no completion
\* of a load of the post (success or failure) changes the editor content.
RestoredContentSurvivesLoad ==
    [][(draftRestored /\ lastOp' \in {"fetchDone", "fetchFail"}) =>
         content' = content]_vars

\* After a restore a refetch of the post has completed with a content other
\* than the editor's, and the editor holds the restored snapshot's content.
RestoredContentWitness ==
    /\ page = "edit" /\ draftRestored /\ lastOp = "fetchDone"
    /\ post # NoPost /\ post.content # content
    /\ content = OldSnapshot("edit").content

\* C11: when a persist pass wrote the live state F and Restore is chosen
\* with the form mounted, the live state right after Restore equals F field
\* for field, the tags in the order they were entered.
RestoreRoundTrip ==
    [][(lastOp' = "restore" /\ mounted' /\ hWritten # NoState) =>
         (getData' = hWritten /\ getData'.tags = hWritten.tags)]_vars

\* A later session has restored what the earlier session wrote, tags [b,a]
\* among it, over a form that held other values.
RestoreRoundTripWitness ==
    /\ lastOp = "restore" /\ mounted
    /\ hWritten = OldLive(page)
    /\ getData = OldLive(page)
    /\ getData.tags = <<"b", "a">>
    /\ getData # getDataOf(FormDefaults(page, post), IF page = "edit" THEN post.content ELSE "")

\* C12: the recovery dialog is open only when hydration has completed, a
\* snapshot is stored for the context and, on the edit page, the post has
\* loaded.
DialogOnlyWithSnapshot ==
    showDraftDialog =>
        /\ isHydrated
        /\ Stored # Absent
        /\ JSONparse(Stored) # SyntaxError
        /\ IsSnapshot(JSONparse(Stored))
        /\ (page = "edit" => post # NoPost)

\* C13: Discard removes the snapshot of the context from storage and nothing
\* else, closes the dialog and leaves form and content as they were; with
\* no snapshot stored it leaves the storage unchanged.
DiscardFrame ==
    [][lastOp' = "discard" =>
         /\ storage' = [storage EXCEPT ![storageKey(page)] = Absent]
         /\ (Stored = Absent => storage' = storage)
         /\ ~showDraftDialog'
         /\ form' = form /\ content' = content
         /\ mounted']_vars

\* Discard was chosen on the edit page over the loaded post: the key is
\* gone, the dialog closed, the surface still holds the post.
DiscardWitness ==
    /\ lastOp = "discard" /\ page = "edit" /\ mounted
    /\ Stored = Absent /\ ~showDraftDialog /\ ~hasDraft
    /\ form = FormDefaults("edit", post) /\ content = post.content

\* C14: when the storage write of a persist pass throws, the session stays
\* mounted with both timers armed, the baseline, hasDraft, lastSaved and the
\* storage are as before the pass, hasUnsavedChanges is true and the next
\* persist tick attempts the write again; and a pass that found changes and
\* stored nothing has thrown.
FailedWriteKeepsSession ==
    [][lastOp' = "persist" =>
         /\ hPass' = "threw" =>
              /\ mounted' /\ checkTimer' = "armed" /\ saveTimer' = "armed"
              /\ lastSavedHashRef' = lastSavedHashRef
              /\ hasDraft' = hasDraft /\ lastSaved' = lastSaved
              /\ storage' = storage
              /\ hasUnsavedChanges'
              /\ form' = form /\ content' = content
              /\ autoSave(HookState', getData', TRUE, clock').wrote
         /\ (ret' = "true" /\ storage' = storage) => hPass' = "threw"]_vars

\* A first write of the session has failed: nothing is stored, no draft is
\* flagged, the change is still flagged and the timers are armed.
FailedWriteWitness ==
    /\ lastOp = "persist" /\ hPass = "threw" /\ ret = "true"
    /\ mounted /\ checkTimer = "armed" /\ saveTimer = "armed"
    /\ Stored = Absent /\ ~hasDraft /\ lastSaved = NoDate
    /\ hasUnsavedChanges
    /\ lastSavedHashRef # dataToHash(getData)

\* C15: distinct editing contexts have distinct storage keys, the storage
\* holds at most one value per context, and no step of a session (save,
\* load on mount or restore, clear on discard) changes what is
\* stored for another context or lets it show in the session's own state.
ContextIsolation ==
    [][/\ \A c1, c2 \in Contexts : c1 # c2 => ContextKey(c1) # ContextKey(c2)
       /\ DOMAIN storage' = AllKeys
       /\ Cardinality(AllKeys) = Cardinality(Contexts)
       /\ \A k \in AllKeys : k # storageKey(page) => storage'[k] = storage[k]
       /\ (mounted' /\ Stored' = Absent) => ~hasDraft'
       /\ (lastOp' = "restore" /\ Stored # Absent) => getData' = hWritten]_vars

\* The session has written its draft over the snapshot of an earlier
\* session while the two other contexts hold snapshots of their own.
ContextIsolationWitness ==
    /\ mounted /\ lastOp = "persist" /\ status = "saved"
    /\ Stored # Absent /\ JSONparse(Stored).savedAt >= 1
    /\ \A k \in AllKeys \ {storageKey(page)} :
         storage[k] # Absent /\ JSONparse(storage[k]).savedAt = 0

-----------------------------------------------------------------------------
(* The toolbar *)

Point(n) == [selectionStart |-> n, selectionEnd |-> n]

\* C16: a wrapping toolbar action on text t with selection [start, end] makes
\* the text t[0..start) + prefix + X + suffix + t[end..), X being the selected
\* text when there is one and the placeholder otherwise, and leaves a collapsed
\* cursor after prefix + selected + suffix when text was selected and just
\* after the prefix when none was; the two worked examples come out as stated.
WrapContract ==
    /\ [][lastOp' \in WrapActions =>
            LET t == content
                start == textarea.selectionStart
                end == textarea.selectionEnd
                prefix == Prefix(lastOp')
                suffix == Suffix(lastOp')
                X == IF start < end THEN SubSeq(t, start + 1, end) ELSE DefaultText(lastOp')
            IN  /\ content' = SubSeq(t, 1, start) \o prefix \o X \o suffix \o SubSeq(t, end + 1, Len(t))
                /\ textarea' = IF start < end
                               THEN Point(start + Len(prefix) + (end - start) + Len(suffix))
                               ELSE Point(start + Len(prefix))]_vars
    /\ LET t == <<"H", "e", "l", "l", "o", " ", "w", "o", "r", "l", "d">>
           sel == [selectionStart |-> 6, selectionEnd |-> 11]
       IN  /\ ValueAfterWrap(t, sel, <<"*">>, <<"*">>, <<>>) = <<"H", "e", "l", "l", "o", " ", "*", "w", "o", "r", "l", "d", "*">>
           /\ CursorAfterWrap(t, sel, <<"*">>, <<"*">>) = Point(13)
    /\ LET t == <<"H", "e", "l", "l", "o", " ">>
           sel == Point(6)
       IN  /\ ValueAfterWrap(t, sel, Prefix("bold"), Suffix("bold"), DefaultText("bold")) = <<"H", "e", "l", "l", "o", " ", "*", "*", "b", "o", "l", "d", " ", "t", "e", "x", "t", "*", "*">>
           /\ CursorAfterWrap(t, sel, Prefix("bold"), Suffix("bold")) = Point(8)

\* Italic has just wrapped the selected "a" of the text "a".
WrapWitness ==
    /\ lastOp = "italic"
    /\ content = <<"*", "a", "*">>
    /\ textarea = Point(3)

\* C17: bold, italic, inline code or link on an empty selection leaves the
\* inserted placeholder selected, from just after the prefix to just after the
\* placeholder.
PlaceholderIsSelected ==
    [][(/\ lastOp' \in {"bold", "italic", "inlineCode", "link"}
        /\ textarea.selectionStart = textarea.selectionEnd)
       => LET afterPrefix == textarea.selectionStart + Len(Prefix(lastOp'))
          IN  textarea' = [selectionStart |-> afterPrefix,
                           selectionEnd |-> afterPrefix + Len(DefaultText(lastOp'))]]_vars

\* C18: a line toolbar action on text t with the cursor at c makes the text
\* t[0..c) + nl + s + t[c..), where nl is one newline when t[0..c) is non-empty
\* and does not end in a newline and is empty otherwise, appends nothing after
\* s, and leaves the cursor at c + len(nl) + len(s); the two worked examples
\* come out as stated.
NewLineContract ==
    /\ [][(lastOp' \in LineActions /\ textarea.selectionStart = textarea.selectionEnd) =>
            LET t == content
                c == textarea.selectionStart
                snippet == LineText(lastOp')
                nl == IF c > 0 /\ t[c] # "\n" THEN <<"\n">> ELSE <<>>
            IN  /\ content' = SubSeq(t, 1, c) \o nl \o snippet \o SubSeq(t, c + 1, Len(t))
                /\ textarea' = Point(c + Len(nl) + Len(snippet))]_vars
    /\ ValueAfterLine(<<>>, Point(0), <<"#", " ">>) = <<"#", " ">>
    /\ ValueAfterLine(<<"a", "b", "c">>, Point(3), <<"#", " ">>) = <<"a", "b", "c", "\n", "#", " ">>

\* A first-level heading has just been put after the text "a".
NewLineWitness ==
    /\ lastOp = "h1"
    /\ content = <<"a", "\n", "#", " ">>
    /\ textarea = Point(4)

-----------------------------------------------------------------------------
(* The demo API *)

Range(seq) == {seq[i] : i \in 1..Len(seq)}

\* C19: once DELETE for a slug has answered 204, and until a POST creates the
\* slug again, GET for it answers 404 and the post list has no entry with that
\* slug; a DELETE or PUT for a slug the store does not have answers 404 and
\* leaves the store unchanged.
DeleteDeletes ==
    [][/\ \A slug \in hDeleted' :
            /\ getMockPost(postsStore', slug) = undefined
            /\ \A item \in Range(getMockPostList(postsStore', TRUE)) : item.slug # slug
       /\ \A slug \in DemoSlugs :
            (/\ getMockPost(postsStore, slug) = undefined
             /\ DeletePost(slug) \/ \E data \in UpdateBodies : PutPost(slug, data))
            => (response'.status = 404 /\ UNCHANGED postsStore)]_vars

-----------------------------------------------------------------------------
(* The persist tick's own dirty check *)

\* The live state differs from an existing baseline.
LiveDiffers ==
    /\ getData # NoData
    /\ lastSavedHashRef # NoHash
    /\ dataToHash(getData) # lastSavedHashRef

\* The step has stored the live state it started from, stamped with the time
\* of the write, and the hook shows it saved.
StoredLiveState ==
    /\ Stored' # Absent
    /\ JSONparse(Stored') =
         [title |-> getData.title, slug |-> getData.slug,
          description |-> getData.description, date |-> getData.date,
          draft |-> getData.draft, tags |-> getData.tags,
          content |-> getData.content, savedAt |-> clock]
    /\ lastSavedHashRef' = dataToHash(getData)
    /\ status' = "saved"
    /\ ~hasUnsavedChanges'
    /\ hasDraft'

-----------------------------------------------------------------------------
(* The ticks as frame conditions *)

\* The live state has the fingerprint of an existing baseline.
LiveIsClean ==
    /\ getData # NoData
    /\ lastSavedHashRef # NoHash
    /\ dataToHash(getData) = lastSavedHashRef

\* C21: a persist tick that finds the live state not dirty writes nothing and
\* leaves status, lastSaved, hasDraft, the baseline and hasUnsavedChanges
\* unchanged, also when hasUnsavedChanges was true and the edit was reverted.
CleanPersistIsNoOp ==
    [][(lastOp' = "persist" /\ LiveIsClean) =>
         /\ storage' = storage
         /\ status' = status /\ lastSaved' = lastSaved /\ hasDraft' = hasDraft
         /\ lastSavedHashRef' = lastSavedHashRef
         /\ hasUnsavedChanges' = hasUnsavedChanges]_vars

\* C22: a dirty-check tick writes nothing to storage and leaves status,
\* lastSaved, hasDraft, the page and an existing baseline unchanged; with a
\* baseline and a live state it sets hasUnsavedChanges to exactly whether the
\* fingerprint of the live state differs from the baseline.
CheckTickFrame ==
    [][lastOp' = "check" =>
         /\ storage' = storage
         /\ status' = status /\ lastSaved' = lastSaved /\ hasDraft' = hasDraft
         /\ UNCHANGED <<clock, mounted, page, isHydrated, checkTimer, saveTimer,
                        pageVars, queryVars>>
         /\ lastSavedHashRef # NoHash => lastSavedHashRef' = lastSavedHashRef
         /\ (lastSavedHashRef # NoHash /\ getData # NoData) =>
              /\ hasUnsavedChanges' = (dataToHash(getData) # lastSavedHashRef)
              /\ ret' = RetOf(hasUnsavedChanges')]_vars

\* A dirty-check tick has flagged an edit made after a save: the snapshot,
\* status 'saved' and the baseline of the save are still there.
CheckTickWitness ==
    /\ lastOp = "check" /\ ret = "true"
    /\ hasUnsavedChanges /\ hasDraft /\ status = "saved"
    /\ hWritten # NoState /\ hWritten # getData
    /\ lastSavedHashRef = dataToHash(hWritten)

\* C23: while the accessor returns no data, a dirty-check tick, a persist tick
\* and a manual saveDraft() report no changes and leave the baseline, the
\* storage, status, lastSaved, hasDraft and hasUnsavedChanges unchanged; a
\* baseline is only ever established from a state with data, as that state's
\* fingerprint.
NoDataIsNoOp ==
    [][/\ (lastOp' \in {"check", "persist", "saveDraft"} /\ getData = NoData) =>
            /\ ret' # "true"
            /\ storage' = storage
            /\ lastSavedHashRef' = lastSavedHashRef
            /\ status' = status /\ lastSaved' = lastSaved
            /\ hasDraft' = hasDraft /\ hasUnsavedChanges' = hasUnsavedChanges
       /\ (lastSavedHashRef = NoHash /\ lastSavedHashRef' # NoHash) =>
            /\ getData # NoData
            /\ lastSavedHashRef' = dataToHash(getData)]_vars

\* saveDraft() has been called on the edit page while the post was still
\* loading: no form, no baseline, nothing stored by it.
NoDataWitness ==
    /\ lastOp = "saveDraft"
    /\ mounted /\ page = "edit" /\ fetching /\ post = NoPost
    /\ getData = NoData
    /\ lastSavedHashRef = NoHash /\ status = "idle" /\ ~hasUnsavedChanges

-----------------------------------------------------------------------------
(* Status after a clear *)

\* C24: when clearDraft() has run - Discard in the dialog, or onSuccess of the
\* commit in a mounted session - status is 'idle', also after a save earlier
\* in the session.
IdleAfterClear ==
    [][(handleDiscardDraft \/ (MutateSuccess /\ OwnerMounted)) => status' = "idle"]_vars

-----------------------------------------------------------------------------
(* Initialisation of the hook for a context *)

\* C25: after the hook is initialised for a context - the page mounts, or a
\* mounted hook is given the key of another context - there is no baseline,
\* and hasDraft and lastSaved are those of the snapshot stored for that
\* context: nothing of the previous context is carried over.
ReinitStartsClean ==
    [][(Mount \/ \E sl \in Slugs : Rekey(sl)) =>
         /\ lastSavedHashRef' = NoHash
         /\ hasDraft' = (Stored' # Absent)
         /\ lastSaved' = IF Stored' = Absent THEN NoDate
                         ELSE NewDateOfSavedAt(JSONparse(Stored'))]_vars

-----------------------------------------------------------------------------
(* The editor content and the refetch after a commit *)

\* C26: on the edit page the completion of a load never replaces the content
\* of an editor the user has in front of them - in particular an edit made
\* after the submit is still the content when the refetch that follows the
\* commit completes, whether or not a draft was restored.
LoadKeepsTypedContent ==
    [][(lastOp' = "fetchDone" /\ page = "edit" /\ CurRendered) => content' = content]_vars

-----------------------------------------------------------------------------
(* Time: the two intervals and the content *)

\* C27: a step that changes the content starts both intervals again, a step
\* that changes only the form leaves both running, and the persist tick
\* writes only when the content has been the same for a whole auto-save
\* period, so that an edit of the content puts the next write a whole period
\* away again.
ContentRestartsTimers ==
    [][ /\ (content' # content) =>
             /\ timerAge'.check = 0 /\ timerAge'.save = 0
             /\ ~Due(timerAge', "save", SavePeriod)
        /\ (form' # form /\ content' = content) => timerAge' = timerAge
        /\ (lastOp' = "persist" /\ clock' # clock) => timerAge.idle >= SavePeriod
      ]_vars

\* The persist tick has written the typed content and the title typed with
\* it, a whole period after the last change of the content.
ContentRestartsTimersWitness ==
    /\ lastOp = "persist"
    /\ hWritten = getData
    /\ content = "x"
    /\ form.title = "T"
    /\ timerAge.idle = SavePeriod

-----------------------------------------------------------------------------
(* Eventual persistence *)

\* The stored snapshot has the fields of the live state and the hook shows
\* nothing unsaved.
Settled ==
    /\ Stored # Absent
    /\ LiveOfSnapshot(JSONparse(Stored)) = getData
    /\ ~hasUnsavedChanges

\* The live states the user of the new page can produce.
LiveStates ==
    {getDataOf([FormDefaults("new", NoPost) EXCEPT !.title = t, !.slug = Slugify(t)], c) :
        t \in HashTitles, c \in Contents}

\* C28: when the mounted page has a baseline and the live state differs from
\* it, then, the auto-save interval firing and the writes succeeding, either
\* the user changes the live state again or the storage comes to hold a
\* snapshot with the fields of that live state while hasUnsavedChanges is
\* false; and from such a state no step that leaves the live state alone
\* writes, and a persist tick leaves it so.
EventuallyPersisted ==
    /\ \A d \in LiveStates :
         (getData = d /\ LiveDiffers) ~> (getData # d \/ Settled)
    /\ [][(Settled /\ getData' = getData) =>
            /\ clock' = clock
            /\ lastOp' = "persist" => (Settled' /\ storage' = storage)]_vars

\* The typed content is stored after the user stopped.
EventuallyPersistedWitness ==
    /\ Settled
    /\ lastOp = "persist"
    /\ hPass = "repeat"
    /\ content = "x"

-----------------------------------------------------------------------------
(* The draft flags and the storage *)

\* loadDraft() would return a snapshot.
LoadsSnapshot == loadDraft(Stored) # JsNull /\ IsSnapshot(loadDraft(Stored))

\* C29: in the mounted, hydrated session whose key holds nothing but what
\* a session wrote (no string that is no snapshot), hasDraft is true iff
\* lastSaved is not null iff loadDraft() would return a snapshot, so that an
\* open recovery dialog has a snapshot to restore.
DraftFlagsAgree ==
    (mounted /\ isHydrated /\ Stored \notin CorruptStrings) =>
        /\ hasDraft <=> (lastSaved # NoDate)
        /\ hasDraft <=> LoadsSnapshot
        /\ showDraftDialog => LoadsSnapshot

-----------------------------------------------------------------------------
(* The text operations only insert *)

\* The last n characters of a text.
Suffixed(t, n) == SubSeq(t, Len(t) - n + 1, Len(t))

\* C30: a toolbar action of either family on the text t with the selection
\* start..end leaves t[0..start) at the beginning of the new text and
\* t[end..) at its end, a non-empty selection of an insertAtCursor action
\* stands between the action's prefix and suffix, an insertOnNewLine action
\* keeps the whole of t[start..) at the end, the cursor is put inside the new
\* text, and the draft storage, the hook's state and the clock of the writes
\* are untouched.
OnlyInserts ==
    [][lastOp' \in WrapActions \cup LineActions =>
         LET t == content
             start == textarea.selectionStart
             end == textarea.selectionEnd
             n == content'
         IN  /\ Len(n) >= Len(t)
             /\ SubSeq(n, 1, start) = SubSeq(t, 1, start)
             /\ Suffixed(n, Len(t) - end) = SubSeq(t, end + 1, Len(t))
             /\ (lastOp' \in WrapActions /\ start < end) =>
                    n = SubSeq(t, 1, start) \o Prefix(lastOp') \o SubSeq(t, start + 1, end)
                          \o Suffix(lastOp') \o SubSeq(t, end + 1, Len(t))
             /\ lastOp' \in LineActions =>
                    Suffixed(n, Len(t) - start) = SubSeq(t, start + 1, Len(t))
             /\ textarea'.selectionStart \in 0..Len(n)
             /\ textarea'.selectionEnd \in 0..Len(n)
             /\ UNCHANGED <<storage, clock, hookVars>>]_vars

\* A link has just been put around the selected middle character of a text
\* of three.
OnlyInsertsWitness ==
    /\ lastOp = "link"
    /\ Len(content) = 10
    /\ SubSeq(content, 2, 2) = <<"[">>
    /\ textarea = Point(9)
    /\ Stored = Absent

=============================================================================
